---- MODULE Spec2Model ----
(***************************************************************************)
(* Tab grouping extension: background script (src/background.js) and the   *)
(* popup that drives it (src/unnamed/part_000).                            *)
(*                                                                         *)
(* JavaScript strings that the code inspects (URLs, hostnames, domain      *)
(* entries) are sequences of one-character strings, so that includes(),    *)
(* the www. strip and URL parsing are computed.  Group names and colors    *)
(* are only compared for equality and are TLA+ strings.                    *)
(*                                                                         *)
(* Every async function is a process.  A step of a process runs from one   *)
(* await of a host call to the next; the host call takes effect in the     *)
(* step that issues it.                                                    *)
(***************************************************************************)
EXTENDS Integers, Sequences, FiniteSets, TLC

VARIABLES
  storage,    \* chrome.storage.sync: a mapping over the keys that are set
  tabs,       \* the host's tabs, in tab-strip order: [id, url, groupId,
              \* windowId]
  groups,     \* the host's tab groups, in query order: [id, title, color]
  activeTab,  \* id of the active tab of the current window
  pc,         \* per process: the await it is suspended at
  call,       \* per process: the function it runs and its arguments
  ret,        \* per process: the value the function returned
  got,        \* per process: the object storage.sync.get resolved to
  lRules,     \* per process: the local groupingRules (moveUncategorizedTabs)
  lTabs,      \* per process: the tabs snapshot of chrome.tabs.query({})
  idx,        \* per process: loop position
  acc,        \* per process: groupMap (autoGroupTabs) / tabsToMove
  gid,        \* per process: groupId returned by chrome.tabs.group
  calls,      \* per process: host calls issued by this invocation that
              \* can reject, with their outcome
  pre,        \* per process: storage and host state when the call started
  faults,     \* host calls that have rejected so far
  rendered,   \* the popup's tab list: [title, tabs] per rendered group
  trail       \* the activations of consecutive cycleTabGroups invocations
              \* since the user last chose a tab: [from, to]

vars == <<storage, tabs, groups, activeTab, pc, call, ret, got, lRules, lTabs,
          idx, acc, gid, calls, pre, faults, rendered, trail>>

-----------------------------------------------------------------------------
(* Bounds and input pools *)

\* open tabs
MaxTabs == 2

\* host calls that reject in one run
MaxFaults == 1

\* open tabs while callers overlap
RaceTabs == 1

\* open tabs while cycleTabGroups is invoked repeatedly
CycleTabs == 3

\* browser windows
Windows == {1, 2}

Procs == {1, 2}

UrlFacebook == <<"h","t","t","p","s",":","/","/","w","w","w",".","f","a","c","e","b","o","o","k",".","c","o","m","/">>
UrlGithub == <<"h","t","t","p","s",":","/","/","g","i","t","h","u","b",".","c","o","m","/">>
UrlReddit == <<"h","t","t","p","s",":","/","/","w","w","w",".","r","e","d","d","i","t",".","c","o","m","/","r","/","x">>
UrlNotAUrl == <<"n","o","t"," ","a"," ","u","r","l">>
UrlAboutBlank == <<"a","b","o","u","t",":","b","l","a","n","k">>
DomReddit == <<"r","e","d","d","i","t",".","c","o","m">>
DomGithub == <<"g","i","t","h","u","b",".","c","o","m">>

\* URLs handed to determineGroup
UrlInputs == {UrlFacebook, UrlGithub, UrlReddit, UrlNotAUrl, UrlAboutBlank}

\* URLs of the open tabs, per specification; <<>> is a tab without url
\* (tab.url is falsy)
RuleUrls == {UrlReddit, UrlAboutBlank}
MoveUrls == {<<>>, UrlReddit, UrlNotAUrl, UrlAboutBlank}
AutoUrls == {<<>>, UrlFacebook, UrlGithub, UrlReddit}
NavUrls == {<<>>, UrlFacebook, UrlGithub}

RaceUrls == {UrlReddit}
PopupUrls == {UrlGithub}

\* names handed to addCustomGroup by overlapping callers
RaceNames == {"Hobbies", "Games"}

\* names handed to addCustomGroup
NameInputs == {"Hobbies", "Work Tools", "Uncategorized", "constructor"}

\* domain lists handed to addCustomGroup
DomainInputs == {<<DomGithub, DomReddit>>}

\* target groups handed to moveUncategorizedTabs
TargetInputs == {"Work Tools", "NonexistentGroup", "constructor"}

-----------------------------------------------------------------------------
(* Module constants of background.js.  The two-word keys of DEFAULT_RULES and
   GROUP_COLORS (Social Media, Work Tools) appear without quotes in the source
   text; they are read here as the string keys "Social Media" and
   "Work Tools", the names the rest of the script uses (line 348). *)

DEFAULT_RULES ==
  <<
     [name |-> "Social Media", domains |-> <<
        <<"f","a","c","e","b","o","o","k",".","c","o","m">>,
        <<"t","w","i","t","t","e","r",".","c","o","m">>,
        <<"i","n","s","t","a","g","r","a","m",".","c","o","m">>,
        <<"l","i","n","k","e","d","i","n",".","c","o","m">>,
        <<"p","i","n","t","e","r","e","s","t",".","c","o","m">>,
        <<"t","i","k","t","o","k",".","c","o","m">> >>],
     [name |-> "Work Tools", domains |-> <<
        <<"s","l","a","c","k",".","c","o","m">>,
        <<"t","r","e","l","l","o",".","c","o","m">>,
        <<"a","s","a","n","a",".","c","o","m">>,
        <<"n","o","t","i","o","n",".","s","o">>,
        <<"g","i","t","h","u","b",".","c","o","m">>,
        <<"g","i","t","l","a","b",".","c","o","m">>,
        <<"f","i","g","m","a",".","c","o","m">> >>],
     [name |-> "News", domains |-> <<
        <<"c","n","n",".","c","o","m">>,
        <<"b","b","c",".","c","o","m">>,
        <<"r","e","u","t","e","r","s",".","c","o","m">>,
        <<"n","p","r",".","o","r","g">>,
        <<"n","y","t","i","m","e","s",".","c","o","m">>,
        <<"w","a","s","h","i","n","g","t","o","n","p","o","s","t",".","c","o","m">> >>],
     [name |-> "Entertainment", domains |-> <<
        <<"y","o","u","t","u","b","e",".","c","o","m">>,
        <<"n","e","t","f","l","i","x",".","c","o","m">>,
        <<"h","u","l","u",".","c","o","m">>,
        <<"s","p","o","t","i","f","y",".","c","o","m">>,
        <<"t","w","i","t","c","h",".","t","v">> >>]
  >>

GROUP_COLORS ==
  [n \in {"Social Media", "Work Tools", "News", "Entertainment", "Uncategorized"} |->
     CASE n = "Social Media" -> "pink"
       [] n = "Work Tools" -> "blue"
       [] n = "News" -> "green"
       [] n = "Entertainment" -> "purple"
       [] n = "Uncategorized" -> "grey"]

\* chrome.tabGroups.TAB_GROUP_ID_NONE: the groupId the host gives an
\* ungrouped tab
TAB_GROUP_ID_NONE == -1

-----------------------------------------------------------------------------
(* JavaScript values *)

\* property names every plain object inherits from Object.prototype
PROTO_KEYS == {"constructor", "toString", "valueOf", "hasOwnProperty", "__proto__"}

\* what obj[key] evaluates to for an inherited key: a function object
ProtoValue == "[object Object.prototype member]"

\* truthiness of a number (tab.groupId, length)
TruthyNum(n) == n # 0

\* truthiness of a string (tab.url)
TruthyStr(s) == Len(s) > 0

EmptyObj == [k \in {} |-> <<>>]

\* an ordered mapping name -> domains is a sequence of [name, domains]
\* entries in insertion order (Object.entries order for non-integer keys)
HasOwn(m, k) == \E i \in DOMAIN m : m[i].name = k

OwnIndex(m, k) == CHOOSE i \in DOMAIN m : m[i].name = k

\* truthiness of m[k] for a rules mapping: own values are arrays (truthy),
\* inherited members are functions (truthy), anything else is undefined
TruthyGet(m, k) == HasOwn(m, k) \/ k \in PROTO_KEYS

\* an assignment that only takes effect on a key that exists
SetKeyNoAppend(m, k, v) ==
  IF HasOwn(m, k)
    THEN [m EXCEPT ![OwnIndex(m, k)].domains = v]
    ELSE m

\* m[k] = v
SetKey(m, k, v) ==
  IF HasOwn(m, k)
    THEN [m EXCEPT ![OwnIndex(m, k)].domains = v]
    ELSE Append(m, [name |-> k, domains |-> v])

\* String.prototype.includes
Includes(s, d) ==
  \E i \in 0..(Len(s) - Len(d)) : SubSeq(s, i + 1, i + Len(d)) = d

\* Array.prototype.includes
ArrIncludes(a, x) == \E i \in DOMAIN a : a[i] = x

\* hostname.replace(/^www\./, "")
StripWww(h) ==
  IF Len(h) >= 4 /\ SubSeq(h, 1, 4) = <<"w", "w", "w", ".">>
    THEN SubSeq(h, 5, Len(h))
    ELSE h

\* index of the first ":" of u, 0 when there is none
ColonAt(u) ==
  IF \E i \in DOMAIN u : u[i] = ":"
    THEN CHOOSE i \in DOMAIN u : u[i] = ":" /\ \A j \in 1..(i - 1) : u[j] # ":"
    ELSE 0

\* new URL(u) does not throw: u starts with a scheme
UrlParses(u) ==
  /\ ColonAt(u) > 1
  /\ \A j \in 1..(ColonAt(u) - 1) : u[j] \notin {" ", "/", "?", "#"}

\* new URL(u).hostname: the authority after "//" up to the path, "" for a
\* URL without authority (about:blank)
UrlHostname(u) ==
  LET rest == SubSeq(u, ColonAt(u) + 1, Len(u))
      auth == SubSeq(rest, 3, Len(rest))
      ends == {i \in DOMAIN auth : auth[i] \in {"/", "?", "#"}}
      stop == IF ends = {} THEN Len(auth) + 1
              ELSE CHOOSE i \in ends : \A j \in ends : i <= j
  IN IF Len(rest) >= 2 /\ SubSeq(rest, 1, 2) = <<"/", "/">>
       THEN SubSeq(auth, 1, stop - 1)
       ELSE <<>>

-----------------------------------------------------------------------------
(* Pure parts of background.js *)

\* getGroupColor: GROUP_COLORS[groupName] || "grey"
getGroupColor(groupName) ==
  IF groupName \in DOMAIN GROUP_COLORS THEN GROUP_COLORS[groupName]
  ELSE IF groupName \in PROTO_KEYS THEN ProtoValue
  ELSE "grey"

\* domains.some((domain) => hostname.includes(domain))
SomeDomain(domains, hostname) ==
  \E j \in DOMAIN domains : Includes(hostname, domains[j])

\* determineGroup with a loop that does not return at the first match
MatchGroupLast(rules, url) ==
  IF ~UrlParses(url) THEN "Uncategorized"
  ELSE LET hostname == StripWww(UrlHostname(url))
           hits == {i \in DOMAIN rules : SomeDomain(rules[i].domains, hostname)}
       IN IF hits = {} THEN "Uncategorized"
          ELSE rules[CHOOSE i \in hits : \A j \in hits : i >= j].name

\* determineGroup after the storage read: the try body on rules read
MatchGroup(rules, url) ==
  IF ~UrlParses(url) THEN "Uncategorized"
  ELSE LET hostname == StripWww(UrlHostname(url))
           hits == {i \in DOMAIN rules : SomeDomain(rules[i].domains, hostname)}
       IN IF hits = {} THEN "Uncategorized"
          ELSE rules[CHOOSE i \in hits : \A j \in hits : i <= j].name

\* determineGroup without its try/catch: the error reaches the caller
determineGroupUnguarded(url, getOk) ==
  IF ~getOk THEN "Error"
  ELSE IF ~UrlParses(url) \/ "groupingRules" \notin DOMAIN storage THEN "TypeError"
  ELSE MatchGroup(storage["groupingRules"], url)

\* determineGroup(url) run against the storage of the current state; getOk
\* is whether chrome.storage.sync.get resolved
determineGroup(url, getOk) ==
  IF ~getOk \/ "groupingRules" \notin DOMAIN storage THEN "Uncategorized"
  ELSE MatchGroup(storage["groupingRules"], url)

-----------------------------------------------------------------------------
(* Host calls *)

\* one host call of an invocation and whether it resolved (ok) or rejected
HostCall(api, items, ids, g, title, color, ok) ==
  [api |-> api, items |-> items, ids |-> ids, gid |-> g, title |-> title,
   color |-> color, ok |-> ok]

StorageGet(ok) == HostCall("storage.get", EmptyObj, <<>>, 0, "", "", ok)

\* a set that keeps the value of a key that is already stored
StorageSetFirstWins(items) ==
  [k \in DOMAIN storage \cup DOMAIN items |->
     IF k \in DOMAIN storage THEN storage[k] ELSE items[k]]

\* chrome.storage.sync.set(items): the keys of items replace the stored ones
StorageSet(items) ==
  [k \in DOMAIN storage \cup DOMAIN items |->
     IF k \in DOMAIN items THEN items[k] ELSE storage[k]]

\* tab.id of a sequence of tabs (tabs.map((tab) => tab.id))
TabIds(ts) == [i \in DOMAIN ts |-> ts[i].id]

SeqRange(q) == {q[i] : i \in DOMAIN q}

\* subsequence of the elements satisfying Test, in order
RECURSIVE SelectTabs(_, _)
SelectTabs(ts, g) ==
  IF ts = <<>> THEN <<>>
  ELSE IF Head(ts).groupId = g THEN <<Head(ts)>> \o SelectTabs(Tail(ts), g)
  ELSE SelectTabs(Tail(ts), g)

\* chrome.tabs.query({ groupId: g })
TabsOfGroup(g) == SelectTabs(tabs, g)

GroupIds == {groups[i].id : i \in DOMAIN groups}

\* the id the host gives the next group it creates
NewGroupId ==
  LET used == GroupIds \cup {gid[q] : q \in Procs}
  IN CHOOSE g \in 1..(Cardinality(used) + 1) :
       g \notin used /\ \A h \in 1..(g - 1) : h \in used

RECURSIVE KeepGroups(_, _)
KeepGroups(gs, live) ==
  IF gs = <<>> THEN <<>>
  ELSE IF Head(gs).id \in live THEN <<Head(gs)>> \o KeepGroups(Tail(gs), live)
  ELSE KeepGroups(Tail(gs), live)

\* the tab chrome.tabs.query({ active: true, currentWindow: true }) returns
CurrentTab == tabs[CHOOSE i \in DOMAIN tabs : tabs[i].id = activeTab]

\* the window of the tab with this id
WindowOf(id) == tabs[CHOOSE i \in DOMAIN tabs : tabs[i].id = id].windowId

\* chrome.tabs.group({ tabIds }): the tabs join a new group of the current
\* window; a group left without tabs ceases to exist
TabsAfterGroup(ids) ==
  [i \in DOMAIN tabs |->
     IF tabs[i].id \in SeqRange(ids)
       THEN [tabs[i] EXCEPT !.groupId = NewGroupId,
                            !.windowId = CurrentTab.windowId]
       ELSE tabs[i]]

GroupsAfterGroup(ids) ==
  LET live == {tabs[i].groupId : i \in {j \in DOMAIN tabs : tabs[j].id \notin SeqRange(ids)}}
  IN Append(KeepGroups(groups, live),
            [id |-> NewGroupId, title |-> "", color |-> "grey"])

\* chrome.tabGroups.update(g, { title, color })
GroupsAfterUpdate(g, title, color) ==
  [i \in DOMAIN groups |->
     IF groups[i].id = g
       THEN [groups[i] EXCEPT !.title = title, !.color = color]
       ELSE groups[i]]

\* groups.findIndex((g) => g.id === id), 0-based, -1 when absent
FindGroupIndex(gs, id) ==
  IF \E i \in DOMAIN gs : gs[i].id = id
    THEN (CHOOSE i \in DOMAIN gs : gs[i].id = id /\ \A j \in 1..(i - 1) : gs[j].id # id) - 1
    ELSE -1

\* groupTabs.findIndex((tab) => tab.id === id), 0-based, -1 when absent
FindTabIndex(ts, id) ==
  IF \E i \in DOMAIN ts : ts[i].id = id
    THEN (CHOOSE i \in DOMAIN ts : ts[i].id = id /\ \A j \in 1..(i - 1) : ts[j].id # id) - 1
    ELSE -1

-----------------------------------------------------------------------------
(* Processes *)

NoCall == [fn |-> "none"]

Snapshot == [storage |-> storage, tabs |-> tabs, groups |-> groups,
             activeTab |-> activeTab]

hostVars == <<tabs, groups, activeTab>>
scanVars == <<lRules, lTabs, idx, acc, gid>>

\* a function is invoked: the process leaves idle
Begin(p, c) ==
  /\ pc[p] = "idle"
  /\ call' = [call EXCEPT ![p] = c]
  /\ pre' = [pre EXCEPT ![p] = Snapshot]

\* the function returns value r to its caller
Finish(p, r) ==
  /\ pc' = [pc EXCEPT ![p] = "done"]
  /\ ret' = [ret EXCEPT ![p] = r]

Goto(p, label) ==
  /\ pc' = [pc EXCEPT ![p] = label]
  /\ UNCHANGED ret

\* outcomes of a host call: it resolves (TRUE) or, while fewer than
\* MaxFaults calls have rejected, rejects (FALSE)
Outcomes(p) == IF faults < MaxFaults THEN BOOLEAN ELSE {TRUE}

\* the outcome of a host call is counted
Count(ok) == faults' = IF ok THEN faults ELSE faults + 1

\* the host rejects the update of a group that no longer exists
UpdateOutcomes(p) == IF gid[p] \in GroupIds THEN Outcomes(p) ELSE {FALSE}

\* a host call is issued and its outcome recorded
Log(p, c) ==
  /\ calls' = [calls EXCEPT ![p] = Append(calls[p], c)]
  /\ Count(c.ok)

\* a browser with one window of 1..MaxTabs ungrouped tabs of the given URLs,
\* the first one active, and an extension that has stored nothing yet
InitWith(tabUrls) ==
  /\ storage = EmptyObj
  /\ \E n \in 1..MaxTabs :
       \E urls \in [1..n -> tabUrls] :
         tabs = [i \in 1..n |-> [id |-> i, url |-> urls[i],
                                 groupId |-> TAB_GROUP_ID_NONE,
                                 windowId |-> 1]]
  /\ activeTab = 1
  /\ groups = <<>>
  /\ pc = [p \in Procs |-> "idle"]
  /\ call = [p \in Procs |-> NoCall]
  /\ ret = [p \in Procs |-> "undefined"]
  /\ got = [p \in Procs |-> EmptyObj]
  /\ lRules = [p \in Procs |-> <<>>]
  /\ lTabs = [p \in Procs |-> <<>>]
  /\ idx = [p \in Procs |-> 0]
  /\ acc = [p \in Procs |-> <<>>]
  /\ gid = [p \in Procs |-> 0]
  /\ calls = [p \in Procs |-> <<>>]
  /\ pre = [p \in Procs |-> EmptyObj]
  /\ faults = 0
  /\ rendered = <<>>
  /\ trail = <<>>

\* the caller has taken the result: the process is idle again
Return(p) ==
  /\ pc[p] = "done"
  /\ pc' = [pc EXCEPT ![p] = "idle"]
  /\ call' = [call EXCEPT ![p] = NoCall]
  /\ ret' = [ret EXCEPT ![p] = "undefined"]
  /\ got' = [got EXCEPT ![p] = EmptyObj]
  /\ lRules' = [lRules EXCEPT ![p] = <<>>]
  /\ lTabs' = [lTabs EXCEPT ![p] = <<>>]
  /\ idx' = [idx EXCEPT ![p] = 0]
  /\ acc' = [acc EXCEPT ![p] = <<>>]
  /\ gid' = [gid EXCEPT ![p] = 0]
  /\ calls' = [calls EXCEPT ![p] = <<>>]
  /\ pre' = [pre EXCEPT ![p] = EmptyObj]
  /\ UNCHANGED <<storage, tabs, groups, activeTab, faults, rendered, trail>>

-----------------------------------------------------------------------------
(* initializeStorage *)

\* await chrome.storage.sync.get([...]) and the test !storedData.groupingRules
initializeStorageGet(p) ==
  /\ Begin(p, [fn |-> "initializeStorage"])
  /\ \E ok \in Outcomes(p) :
       /\ Log(p, StorageGet(ok))
       /\ IF ok /\ "groupingRules" \notin DOMAIN storage
            THEN Goto(p, "init_set")
            ELSE Finish(p, "undefined")
  /\ UNCHANGED <<storage, hostVars, got, scanVars, rendered, trail>>

\* await chrome.storage.sync.set({ groupingRules: DEFAULT_RULES, customGroups: [] })
initializeStorageSet(p) ==
  /\ pc[p] = "init_set"
  /\ LET items == [groupingRules |-> DEFAULT_RULES, customGroups |-> <<>>]
     IN /\ storage' = StorageSet(items)
        /\ Log(p, HostCall("storage.set", items, <<>>, 0, "", "", TRUE))
  /\ Finish(p, "undefined")
  /\ UNCHANGED <<hostVars, call, got, scanVars, pre, rendered, trail>>

-----------------------------------------------------------------------------
(* addCustomGroup *)

\* a uniqueness test that looks at the rules only
AddThrowsRulesOnly(g, groupName) ==
  \/ "groupingRules" \notin DOMAIN g
  \/ TruthyGet(g["groupingRules"], groupName)
  \/ "customGroups" \notin DOMAIN g

\* a uniqueness test that looks at the custom-group list only
AddThrowsCustomOnly(g, groupName) ==
  \/ "groupingRules" \notin DOMAIN g
  \/ "customGroups" \notin DOMAIN g
  \/ \E i \in DOMAIN g["customGroups"] : g["customGroups"][i].name = groupName

\* the test that sends addCustomGroup into its catch: reading a property of
\* an undefined value throws a TypeError, and
\* groupingRules[groupName] || customGroups.some((group) => group.name === groupName)
\* throws the "already exists" Error
AddThrows(g, groupName) ==
  \/ "groupingRules" \notin DOMAIN g
  \/ TruthyGet(g["groupingRules"], groupName)
  \/ "customGroups" \notin DOMAIN g
  \/ \E i \in DOMAIN g["customGroups"] : g["customGroups"][i].name = groupName

\* await chrome.storage.sync.get(["groupingRules", "customGroups"])
addCustomGroupGet(p, groupName, domains) ==
  /\ Begin(p, [fn |-> "addCustomGroup", groupName |-> groupName, domains |-> domains])
  /\ \E ok \in Outcomes(p) :
       /\ Log(p, StorageGet(ok))
       /\ IF ok
            THEN /\ got' = [got EXCEPT ![p] = storage]
                 /\ Goto(p, "acg_check")
            ELSE /\ UNCHANGED got
                 /\ Finish(p, FALSE)
  /\ UNCHANGED <<storage, hostVars, scanVars, rendered, trail>>

\* the uniqueness test, the update of both values and the combined
\* chrome.storage.sync.set; a TypeError on an undefined value and the
\* "already exists" Error both land in the catch that returns false
addCustomGroupCheck(p) ==
  /\ pc[p] = "acg_check"
  /\ LET g == got[p]
         groupName == call[p].groupName
         domains == call[p].domains
     IN IF AddThrows(g, groupName)
          THEN /\ Finish(p, FALSE)
               /\ UNCHANGED <<storage, calls, faults>>
          ELSE LET items ==
                     [groupingRules |-> SetKey(g["groupingRules"], groupName, domains),
                      customGroups |->
                        Append(g["customGroups"],
                               [name |-> groupName, domains |-> domains,
                                color |-> getGroupColor(groupName)])]
               IN /\ storage' = StorageSet(items)
                  /\ Log(p, HostCall("storage.set", items, <<>>, 0, "", "", TRUE))
                  /\ Finish(p, TRUE)
  /\ UNCHANGED <<hostVars, call, got, scanVars, pre, rendered, trail>>

-----------------------------------------------------------------------------
(* determineGroup called on its own *)

determineGroupCall(p, url) ==
  /\ Begin(p, [fn |-> "determineGroup", url |-> url])
  /\ \E ok \in Outcomes(p) :
       /\ Log(p, StorageGet(ok))
       /\ Finish(p, determineGroup(url, ok))
  /\ UNCHANGED <<storage, hostVars, got, scanVars, rendered, trail>>

-----------------------------------------------------------------------------
(* autoGroupTabs *)

\* an ordered mapping group name -> tabs is a sequence of [name, tabs]
HasPart(m, k) == \E i \in DOMAIN m : m[i].name = k

\* a push that starts a new partition for every tab
PushTabAlwaysNew(m, group, tab) == Append(m, [name |-> group, tabs |-> <<tab>>])

\* groupMap[group] = groupMap[group] || []; groupMap[group].push(tab)
PushTab(m, group, tab) ==
  IF HasPart(m, group)
    THEN [i \in DOMAIN m |->
            IF m[i].name = group
              THEN [m[i] EXCEPT !.tabs = Append(m[i].tabs, tab)]
              ELSE m[i]]
    ELSE Append(m, [name |-> group, tabs |-> <<tab>>])

\* const tabs = await chrome.tabs.query({}); const groupMap = {}
autoGroupTabsQuery(p) ==
  /\ Begin(p, [fn |-> "autoGroupTabs"])
  /\ lTabs' = [lTabs EXCEPT ![p] = tabs]
  /\ acc' = [acc EXCEPT ![p] = <<>>]
  /\ idx' = [idx EXCEPT ![p] = 1]
  /\ calls' = [calls EXCEPT ![p] = <<>>]
  /\ Goto(p, "ag_scan")
  /\ UNCHANGED <<storage, hostVars, got, lRules, gid, faults, rendered, trail>>

\* one round of the loop over tabs: skip a tab without url, otherwise
\* await determineGroup(tab.url) and push the tab on its partition
autoGroupTabsScan(p) ==
  /\ pc[p] = "ag_scan"
  /\ LET tab == lTabs[p][idx[p]]
         last == idx[p] = Len(lTabs[p])
     IN IF ~TruthyStr(tab.url)
          THEN /\ Goto(p, IF last THEN "ag_group" ELSE "ag_scan")
               /\ idx' = [idx EXCEPT ![p] = IF last THEN 1 ELSE idx[p] + 1]
               /\ UNCHANGED <<acc, calls, faults>>
          ELSE \E ok \in Outcomes(p) :
                 LET group == determineGroup(tab.url, ok)
                 IN /\ Log(p, StorageGet(ok))
                    /\ IF group \in PROTO_KEYS
                         \* groupMap[group] is an inherited function: push throws
                         THEN /\ Finish(p, "undefined")
                              /\ UNCHANGED <<acc, idx>>
                         ELSE /\ acc' = [acc EXCEPT ![p] = PushTab(acc[p], group, tab)]
                              /\ Goto(p, IF last THEN "ag_group" ELSE "ag_scan")
                              /\ idx' = [idx EXCEPT ![p] = IF last THEN 1 ELSE idx[p] + 1]
  /\ UNCHANGED <<storage, hostVars, call, got, lRules, lTabs, gid, pre,
               rendered, trail>>

\* where the loop over Object.entries(groupMap) goes after entry idx
AfterPartition(p) == IF idx[p] >= Len(acc[p]) THEN "done" ELSE "ag_group"

\* an error of one partition that ends the loop over the partitions
AbortBatch(p) == "done"

\* catch (groupError): the error of one partition is logged and the loop
\* over the partitions goes on
OnGroupError(p) == AfterPartition(p)

\* one round of the loop over the partitions: await chrome.tabs.group(...)
autoGroupTabsGroup(p) ==
  /\ pc[p] = "ag_group"
  /\ IF acc[p] = <<>>
       THEN /\ Finish(p, "undefined")
            /\ UNCHANGED <<tabs, groups, gid, idx, calls, faults>>
       ELSE LET ids == TabIds(acc[p][idx[p]].tabs)
            IN \E ok \in Outcomes(p) :
                 IF ok
                   THEN /\ tabs' = TabsAfterGroup(ids)
                        /\ groups' = GroupsAfterGroup(ids)
                        /\ gid' = [gid EXCEPT ![p] = NewGroupId]
                        /\ Log(p, HostCall("tabs.group", EmptyObj, ids, NewGroupId, "", "", TRUE))
                        /\ Goto(p, "ag_update")
                        /\ UNCHANGED idx
                   ELSE /\ Log(p, HostCall("tabs.group", EmptyObj, ids, 0, "", "", FALSE))
                        /\ IF OnGroupError(p) = "done"
                             THEN Finish(p, "undefined")
                             ELSE Goto(p, "ag_group")
                        /\ idx' = [idx EXCEPT ![p] = idx[p] + 1]
                        /\ UNCHANGED <<tabs, groups, gid>>
  /\ UNCHANGED <<storage, activeTab, call, got, lRules, lTabs, acc, pre,
               rendered, trail>>

\* await chrome.tabGroups.update(groupId, { title: groupName, color: ... })
autoGroupTabsUpdate(p) ==
  /\ pc[p] = "ag_update"
  /\ LET groupName == acc[p][idx[p]].name
         color == getGroupColor(groupName)
     IN \E ok \in UpdateOutcomes(p) :
          /\ Log(p, HostCall("tabGroups.update", EmptyObj, <<>>, gid[p], groupName, color, ok))
          /\ groups' = IF ok THEN GroupsAfterUpdate(gid[p], groupName, color) ELSE groups
          /\ IF (IF ok THEN AfterPartition(p) ELSE OnGroupError(p)) = "done"
               THEN Finish(p, "undefined")
               ELSE Goto(p, "ag_group")
  /\ idx' = [idx EXCEPT ![p] = idx[p] + 1]
  /\ UNCHANGED <<storage, tabs, activeTab, call, got, lRules, lTabs, acc,
               gid, pre, rendered, trail>>

-----------------------------------------------------------------------------
(* moveUncategorizedTabs *)

\* if (!groupingRules[targetGroup].includes(hostname))
\*   groupingRules[targetGroup].push(hostname)
AddDomain(rules, targetGroup, hostname) ==
  LET i == OwnIndex(rules, targetGroup)
  IN IF ArrIncludes(rules[i].domains, hostname)
       THEN rules
       ELSE [rules EXCEPT ![i].domains = Append(rules[i].domains, hostname)]

\* await chrome.storage.sync.get("groupingRules"), the test
\* !groupingRules[targetGroup], and await chrome.tabs.query({})
moveUncategorizedTabsGet(p, targetGroup) ==
  /\ Begin(p, [fn |-> "moveUncategorizedTabs", targetGroup |-> targetGroup])
  /\ \E ok \in Outcomes(p) :
       /\ Log(p, StorageGet(ok))
       /\ IF /\ ok
             /\ "groupingRules" \in DOMAIN storage
             /\ TruthyGet(storage["groupingRules"], targetGroup)
            THEN /\ lRules' = [lRules EXCEPT ![p] = storage["groupingRules"]]
                 /\ lTabs' = [lTabs EXCEPT ![p] = tabs]
                 /\ idx' = [idx EXCEPT ![p] = 1]
                 /\ Goto(p, IF tabs = <<>> THEN "mv_set" ELSE "mv_scan")
            ELSE /\ Finish(p, "undefined")
                 /\ UNCHANGED <<lRules, lTabs, idx>>
  /\ UNCHANGED <<storage, hostVars, got, acc, gid, rendered, trail>>

\* one round of the loop over the tabs: skip a tab without url, otherwise
\* await determineGroup(tab.url); an "Uncategorized" tab is pushed on
\* tabsToMove, its URL is parsed again (new URL throws on an unparsable one)
\* and its stripped hostname joins the local rules of targetGroup
\* (groupingRules[targetGroup].includes is not a function when targetGroup
\* is an inherited member); a throw lands in the outer catch
moveUncategorizedTabsScan(p) ==
  /\ pc[p] = "mv_scan"
  /\ LET tab == lTabs[p][idx[p]]
         last == idx[p] = Len(lTabs[p])
         targetGroup == call[p].targetGroup
         next == IF last THEN "mv_set" ELSE "mv_scan"
     IN IF ~TruthyStr(tab.url)
          THEN /\ Goto(p, next)
               /\ idx' = [idx EXCEPT ![p] = idx[p] + 1]
               /\ UNCHANGED <<acc, lRules, calls, faults>>
          ELSE \E ok \in Outcomes(p) :
                 /\ Log(p, StorageGet(ok))
                 /\ IF determineGroup(tab.url, ok) # "Uncategorized"
                      THEN /\ Goto(p, next)
                           /\ idx' = [idx EXCEPT ![p] = idx[p] + 1]
                           /\ UNCHANGED <<acc, lRules>>
                      ELSE /\ acc' = [acc EXCEPT ![p] = Append(acc[p], tab)]
                           /\ IF ~UrlParses(tab.url) \/ ~HasOwn(lRules[p], targetGroup)
                                THEN /\ Finish(p, "undefined")
                                     /\ UNCHANGED <<idx, lRules>>
                                ELSE /\ lRules' = [lRules EXCEPT ![p] =
                                          AddDomain(lRules[p], targetGroup,
                                                    StripWww(UrlHostname(tab.url)))]
                                     /\ Goto(p, next)
                                     /\ idx' = [idx EXCEPT ![p] = idx[p] + 1]
  /\ UNCHANGED <<storage, hostVars, call, got, lTabs, gid, pre, rendered,
               trail>>

\* a write that is skipped when no tab was collected
moveUncategorizedTabsSetIfCollected(p) ==
  /\ pc[p] = "mv_set"
  /\ LET items == [groupingRules |-> lRules[p]]
     IN IF Len(acc[p]) > 0
          THEN /\ storage' = StorageSet(items)
               /\ Log(p, HostCall("storage.set", items, <<>>, 0, "", "", TRUE))
               /\ Goto(p, "mv_group")
          ELSE /\ Finish(p, "undefined")
               /\ UNCHANGED <<storage, calls, faults>>
  /\ UNCHANGED <<hostVars, call, got, scanVars, pre, rendered, trail>>

\* await chrome.storage.sync.set({ groupingRules })
moveUncategorizedTabsSet(p) ==
  /\ pc[p] = "mv_set"
  /\ LET items == [groupingRules |-> lRules[p]]
     IN /\ storage' = StorageSet(items)
        /\ Log(p, HostCall("storage.set", items, <<>>, 0, "", "", TRUE))
  /\ IF Len(acc[p]) > 0
       THEN Goto(p, "mv_group")
       ELSE Finish(p, "undefined")
  /\ UNCHANGED <<hostVars, call, got, scanVars, pre, rendered, trail>>

\* await chrome.tabs.group({ tabIds: tabsToMove.map((tab) => tab.id) })
moveUncategorizedTabsGroup(p) ==
  /\ pc[p] = "mv_group"
  /\ LET ids == TabIds(acc[p])
     IN \E ok \in Outcomes(p) :
          IF ok
            THEN /\ tabs' = TabsAfterGroup(ids)
                 /\ groups' = GroupsAfterGroup(ids)
                 /\ gid' = [gid EXCEPT ![p] = NewGroupId]
                 /\ Log(p, HostCall("tabs.group", EmptyObj, ids, NewGroupId, "", "", TRUE))
                 /\ Goto(p, "mv_update")
            ELSE /\ Log(p, HostCall("tabs.group", EmptyObj, ids, 0, "", "", FALSE))
                 /\ Finish(p, "undefined")
                 /\ UNCHANGED <<tabs, groups, gid>>
  /\ UNCHANGED <<storage, activeTab, call, got, lRules, lTabs, idx, acc, pre,
               rendered, trail>>

\* await chrome.tabGroups.update(groupId, { title: targetGroup, color: ... })
moveUncategorizedTabsUpdate(p) ==
  /\ pc[p] = "mv_update"
  /\ LET targetGroup == call[p].targetGroup
         color == getGroupColor(targetGroup)
     IN \E ok \in UpdateOutcomes(p) :
          /\ Log(p, HostCall("tabGroups.update", EmptyObj, <<>>, gid[p], targetGroup, color, ok))
          /\ groups' = IF ok THEN GroupsAfterUpdate(gid[p], targetGroup, color) ELSE groups
  /\ Finish(p, "undefined")
  /\ UNCHANGED <<storage, tabs, activeTab, call, got, scanVars, pre,
               rendered, trail>>

-----------------------------------------------------------------------------
(* Navigation *)

\* a next index that forgets to advance
NextGroupIndexStay(currentGroupIndex, n) ==
  IF currentGroupIndex >= 0 THEN currentGroupIndex % n ELSE 0

\* (currentGroupIndex + 1) % groups.length, or 0 when the index is -1
NextGroupIndex(currentGroupIndex, n) ==
  IF currentGroupIndex >= 0 THEN (currentGroupIndex + 1) % n ELSE 0

\* (currentIndex + 1) % groupTabs.length
NextTabIndex(currentIndex, m) == (currentIndex + 1) % m

\* await chrome.tabs.update(id, { active: true }): the tab becomes the active
\* tab of its window; the call does not focus that window, so the active tab
\* of the current window changes only when the tab is in the current window
Activate(p, id) ==
  /\ activeTab' = IF WindowOf(id) = CurrentTab.windowId THEN id ELSE activeTab
  /\ calls' = [calls EXCEPT ![p] =
        <<HostCall("tabs.update", EmptyObj, <<id>>, 0, "", "", TRUE)>>]

\* cycleTabGroups: the handler only reads the host between its awaits, so
\* its run is one step
cycleTabGroups(p) ==
  /\ Begin(p, [fn |-> "cycleTabGroups"])
  /\ IF Len(groups) = 0
       THEN UNCHANGED activeTab /\ calls' = [calls EXCEPT ![p] = <<>>]
       ELSE LET currentGroupIndex ==
                  IF TruthyNum(CurrentTab.groupId)
                    THEN FindGroupIndex(groups, CurrentTab.groupId)
                    ELSE -1
                nextIndex == NextGroupIndex(currentGroupIndex, Len(groups))
                groupTabs == TabsOfGroup(groups[nextIndex + 1].id)
            IN IF Len(groupTabs) > 0
                 THEN Activate(p, groupTabs[1].id)
                 ELSE UNCHANGED activeTab /\ calls' = [calls EXCEPT ![p] = <<>>]
  /\ Finish(p, "undefined")
  /\ UNCHANGED <<storage, tabs, groups, got, scanVars, faults, rendered>>

\* navigateWithinGroup, one step for the same reason
navigateWithinGroup(p) ==
  /\ Begin(p, [fn |-> "navigateWithinGroup"])
  /\ LET groupTabs == TabsOfGroup(CurrentTab.groupId)
     IN IF ~TruthyNum(CurrentTab.groupId) \/ Len(groupTabs) <= 1
          THEN UNCHANGED activeTab /\ calls' = [calls EXCEPT ![p] = <<>>]
          ELSE LET currentIndex == FindTabIndex(groupTabs, CurrentTab.id)
                   nextIndex == NextTabIndex(currentIndex, Len(groupTabs))
               IN Activate(p, groupTabs[nextIndex + 1].id)
  /\ Finish(p, "undefined")
  /\ UNCHANGED <<storage, tabs, groups, got, scanVars, faults, rendered, trail>>

-----------------------------------------------------------------------------
(* The popup (src/unnamed/part_000) *)

\* what the background script sets on its window:
\* window.tabGroupingExtension = { addCustomGroup, moveUncategorizedTabs,
\* autoGroupTabs }
BackgroundWindow ==
  [tabGroupingExtension |-> {"addCustomGroup", "moveUncategorizedTabs", "autoGroupTabs"}]

\* the property of the background page the popup calls autoGroupTabs on:
\* backgroundPage.backgroundMethods.autoGroupTabs()
PopupSurface == "backgroundMethods"

\* the keys of groupMap in insertion order: tab.groupId || "ungrouped" of
\* every tab, each key once
RECURSIVE GroupKeys(_, _)
GroupKeys(ts, seen) ==
  IF ts = <<>> THEN <<>>
  ELSE LET k == IF TruthyNum(Head(ts).groupId) THEN Head(ts).groupId ELSE "ungrouped"
       IN IF k \in seen
            THEN GroupKeys(Tail(ts), seen)
            ELSE <<k>> \o GroupKeys(Tail(ts), seen \cup {k})

\* group ? group.title : "Ungrouped Tabs", group being groups.find by id
GroupTitle(gs, k) ==
  IF \E i \in DOMAIN gs : gs[i].id = k
    THEN gs[CHOOSE i \in DOMAIN gs : gs[i].id = k].title
    ELSE "Ungrouped Tabs"

\* the tab list displayTabs builds from its two snapshots: one block per key
\* of groupMap, with the group's title and its tabs
Render(ts, gs) ==
  LET keys == GroupKeys(ts, {})
  IN [i \in DOMAIN keys |->
        [title |-> GroupTitle(gs, keys[i]),
         tabs |-> TabIds(SelectTabs(ts, keys[i]))]]

\* displayTabs: const tabs = await chrome.tabs.query({})
displayTabsQuery(p) ==
  /\ Begin(p, [fn |-> "displayTabs"])
  /\ lTabs' = [lTabs EXCEPT ![p] = tabs]
  /\ calls' = [calls EXCEPT ![p] = <<>>]
  /\ Goto(p, "dt_groups")
  /\ UNCHANGED <<storage, hostVars, got, lRules, idx, acc, gid, faults,
               rendered, trail>>

\* displayTabs: const groups = await chrome.tabGroups.query({}) and the
\* rebuild of the tab list
displayTabsRender(p) ==
  /\ pc[p] = "dt_groups"
  /\ rendered' = Render(lTabs[p], groups)
  /\ Finish(p, "undefined")
  /\ UNCHANGED <<storage, hostVars, call, got, scanVars, calls, pre, faults,
               trail>>

\* the click handler of autoGroupBtn, run by popup process p: the callback of
\* chrome.runtime.getBackgroundPage reads backgroundPage.backgroundMethods
\* and calls its autoGroupTabs (run by background process q up to its first
\* await), then calls displayTabs (up to its first await); reading a
\* property of undefined throws a TypeError that ends the callback
autoGroupBtnClick(p, q) ==
  /\ pc[p] = "idle"
  /\ IF /\ PopupSurface \in DOMAIN BackgroundWindow
        /\ "autoGroupTabs" \in BackgroundWindow[PopupSurface]
       THEN /\ pc[q] = "idle"
            /\ call' = [call EXCEPT ![p] = [fn |-> "autoGroupBtnClick"],
                                    ![q] = [fn |-> "autoGroupTabs"]]
            /\ pre' = [pre EXCEPT ![p] = Snapshot, ![q] = Snapshot]
            /\ lTabs' = [lTabs EXCEPT ![p] = tabs, ![q] = tabs]
            /\ acc' = [acc EXCEPT ![q] = <<>>]
            /\ idx' = [idx EXCEPT ![q] = 1]
            /\ calls' = [calls EXCEPT
                 ![p] = <<HostCall("backgroundPage.autoGroupTabs", EmptyObj,
                                   <<>>, 0, "", "", TRUE)>>,
                 ![q] = <<>>]
            /\ pc' = [pc EXCEPT ![p] = "dt_groups", ![q] = "ag_scan"]
            /\ UNCHANGED ret
       ELSE /\ call' = [call EXCEPT ![p] = [fn |-> "autoGroupBtnClick"]]
            /\ pre' = [pre EXCEPT ![p] = Snapshot]
            /\ calls' = [calls EXCEPT ![p] = <<>>]
            /\ Finish(p, "TypeError")
            /\ UNCHANGED <<lTabs, acc, idx>>
  /\ UNCHANGED <<storage, hostVars, got, lRules, gid, faults, rendered, trail>>

-----------------------------------------------------------------------------
(* Specifications *)

\* no function is running
Quiet == \A q \in Procs : pc[q] = "idle"

\* the user activates a tab: a new run of cycleTabGroups invocations starts
UserActivates(t) ==
  /\ Quiet
  /\ t \in {tabs[i].id : i \in DOMAIN tabs}
  /\ t # activeTab
  /\ activeTab' = t
  /\ UNCHANGED <<storage, tabs, groups, pc, call, ret, got, scanVars, calls,
               pre, faults, rendered>>
  /\ trail' = <<>>

\* The rule store and the resolver, one function at a time: a function is
\* invoked only when none is running
Init == InitWith(RuleUrls)

Next ==
  \/ Quiet /\ initializeStorageGet(1)
  \/ initializeStorageSet(1)
  \/ Quiet /\ \E n \in NameInputs, d \in DomainInputs : addCustomGroupGet(1, n, d)
  \/ addCustomGroupCheck(1)
  \/ Quiet /\ \E u \in UrlInputs : determineGroupCall(1, u)
  \/ Quiet /\ moveUncategorizedTabsGet(1, "Work Tools")
  \/ moveUncategorizedTabsScan(1)
  \/ moveUncategorizedTabsSet(1)
  \/ moveUncategorizedTabsGroup(1)
  \/ moveUncategorizedTabsUpdate(1)
  \/ Return(1)

Spec == Init /\ [][Next]_vars

\* The migration of uncategorized tabs, one function at a time
InitMove == InitWith(MoveUrls)

NextMove ==
  \/ Quiet /\ initializeStorageGet(1)
  \/ initializeStorageSet(1)
  \/ Quiet /\ \E d \in DomainInputs : addCustomGroupGet(1, "Hobbies", d)
  \/ addCustomGroupCheck(1)
  \/ Quiet /\ \E t \in TargetInputs : moveUncategorizedTabsGet(1, t)
  \/ moveUncategorizedTabsScan(1)
  \/ moveUncategorizedTabsSet(1)
  \/ moveUncategorizedTabsGroup(1)
  \/ moveUncategorizedTabsUpdate(1)
  \/ Return(1)

SpecMove == InitMove /\ [][NextMove]_vars

\* Batch grouping, one function at a time
InitAuto == InitWith(AutoUrls)

NextAuto ==
  \/ Quiet /\ initializeStorageGet(1)
  \/ initializeStorageSet(1)
  \/ Quiet /\ \E d \in DomainInputs : addCustomGroupGet(1, "Hobbies", d)
  \/ addCustomGroupCheck(1)
  \/ Quiet /\ autoGroupTabsQuery(1)
  \/ autoGroupTabsScan(1)
  \/ autoGroupTabsGroup(1)
  \/ autoGroupTabsUpdate(1)
  \/ Return(1)

SpecAuto == InitAuto /\ [][NextAuto]_vars

\* Navigation over the groups that batch grouping creates, one function at a
\* time
InitNav == InitWith(NavUrls)

NextNav ==
  \/ Quiet /\ initializeStorageGet(1)
  \/ initializeStorageSet(1)
  \/ Quiet /\ autoGroupTabsQuery(1)
  \/ autoGroupTabsScan(1)
  \/ autoGroupTabsGroup(1)
  \/ autoGroupTabsUpdate(1)
  \/ Quiet /\ cycleTabGroups(1) /\ UNCHANGED trail
  \/ Quiet /\ navigateWithinGroup(1)
  \/ \E t \in 1..MaxTabs : UserActivates(t)
  \/ Return(1)

SpecNav == InitNav /\ [][NextNav]_vars

\* The rule store under overlapping callers: every function may be invoked
\* while another is suspended at an await (script load, the install event,
\* the move-uncategorized command and the popup)
InitRace == InitWith(RaceUrls) /\ Len(tabs) <= RaceTabs

NextRace ==
  \/ \E p \in Procs : initializeStorageGet(p)
  \/ \E p \in Procs : initializeStorageSet(p)
  \/ \E d \in DomainInputs : addCustomGroupGet(1, "Hobbies", d)
  \/ \E d \in DomainInputs : addCustomGroupGet(2, "Hobbies", d)
  \/ \E p \in Procs : addCustomGroupCheck(p)
  \/ moveUncategorizedTabsGet(2, "Work Tools")
  \/ moveUncategorizedTabsScan(2)
  \/ moveUncategorizedTabsSet(2)
  \/ moveUncategorizedTabsGroup(2)
  \/ moveUncategorizedTabsUpdate(2)
  \/ \E p \in Procs : Return(p)

SpecRace == InitRace /\ [][NextRace]_vars

\* The popup, run by process 2, next to the background script, run by
\* process 1: the startup functions of the background script, the popup's
\* initial and periodic displayTabs and the auto-group button
InitPopup == InitWith(PopupUrls)

NextPopup ==
  \/ initializeStorageGet(1)
  \/ initializeStorageSet(1)
  \/ autoGroupTabsQuery(1)
  \/ autoGroupTabsScan(1)
  \/ autoGroupTabsGroup(1)
  \/ autoGroupTabsUpdate(1)
  \/ displayTabsQuery(2)
  \/ displayTabsRender(2)
  \/ autoGroupBtnClick(2, 1)
  \/ \E p \in Procs : Return(p)

SpecPopup == InitPopup /\ [][NextPopup]_vars

\* no function has been invoked yet
IdleProcs ==
  /\ pc = [p \in Procs |-> "idle"]
  /\ call = [p \in Procs |-> NoCall]
  /\ ret = [p \in Procs |-> "undefined"]
  /\ got = [p \in Procs |-> EmptyObj]
  /\ lRules = [p \in Procs |-> <<>>]
  /\ lTabs = [p \in Procs |-> <<>>]
  /\ idx = [p \in Procs |-> 0]
  /\ acc = [p \in Procs |-> <<>>]
  /\ gid = [p \in Procs |-> 0]
  /\ calls = [p \in Procs |-> <<>>]
  /\ pre = [p \in Procs |-> EmptyObj]

\* cycleTabGroups and the run of its consecutive invocations: the tab that was
\* active and the tab it activated (0 when it activated none)
cycleTabGroupsRepeated(p) ==
  /\ cycleTabGroups(p)
  /\ LET step == [from |-> activeTab,
                  to |-> IF calls'[p] = <<>> THEN 0 ELSE calls'[p][1].ids[1]]
     IN trail' = IF Len(trail) >= Len(groups)
                   THEN <<step>>
                   ELSE Append(trail, step)

\* Repeated group cycling over tab groups that exist in the browser's
\* windows: 1..CycleTabs tabs, each ungrouped or in one of the groups 1..k
\* (tabs of a group adjacent in the strip and in one window, groups listed by
\* id), the first tab active in the current window; tabs and groups do not
\* change
InitCycle ==
  /\ storage = EmptyObj
  /\ \E n \in 1..CycleTabs :
       \E g \in [1..n -> {TAB_GROUP_ID_NONE} \cup 1..n], w \in [1..n -> Windows] :
         LET used == {g[i] : i \in 1..n} \ {TAB_GROUP_ID_NONE}
         IN /\ used = 1..Cardinality(used)
            /\ \A i, j \in 1..n :
                 (g[i] = g[j] /\ g[i] # TAB_GROUP_ID_NONE) =>
                   /\ w[i] = w[j]
                   /\ \A k \in i..j : g[k] = g[i]
            /\ \A i, j \in 1..n : (i < j /\ w[i] = 1 /\ w[j] = 1) =>
                 \A k \in i..j : w[k] = 1
            /\ w[1] = 1
            /\ tabs = [i \in 1..n |-> [id |-> i, url |-> UrlGithub,
                                        groupId |-> g[i], windowId |-> w[i]]]
            /\ groups = [k \in 1..Cardinality(used) |->
                           [id |-> k, title |-> "", color |-> "grey"]]
  /\ activeTab = 1
  /\ IdleProcs
  /\ faults = 0
  /\ rendered = <<>>
  /\ trail = <<>>

NextCycle ==
  \/ cycleTabGroupsRepeated(1)
  \/ \E t \in 1..CycleTabs : UserActivates(t)
  \/ Return(1)

SpecCycle == InitCycle /\ [][NextCycle]_vars

\* Overlapping calls of addCustomGroup, with the same and with distinct names
InitAdd == InitWith(RaceUrls) /\ Len(tabs) <= RaceTabs

NextAdd ==
  \/ \E p \in Procs : initializeStorageGet(p)
  \/ \E p \in Procs : initializeStorageSet(p)
  \/ \E d \in DomainInputs : addCustomGroupGet(1, "Hobbies", d)
  \/ \E n \in RaceNames, d \in DomainInputs : addCustomGroupGet(2, n, d)
  \/ \E p \in Procs : addCustomGroupCheck(p)
  \/ \E p \in Procs : Return(p)

SpecAdd == InitAdd /\ [][NextAdd]_vars

-----------------------------------------------------------------------------
(* Properties *)

\* process 1 has returned from function fn and its caller has not resumed
Done(fn) == pc[1] = "done" /\ call[1].fn = fn

\* every host call of the invocation resolved
NoReject == \A i \in DOMAIN calls[1] : calls[1][i].ok

\* the host calls of the invocation to one API, by position
CallsTo(api) == {i \in DOMAIN calls[1] : calls[1][i].api = api}

RulesStored(st) == "groupingRules" \in DOMAIN st

\* entry i of rules has a domain contained in the stripped hostname of url
Hit(rules, i, url) ==
  \E j \in DOMAIN rules[i].domains :
    Includes(StripWww(UrlHostname(url)), rules[i].domains[j])

\* C1 as stated: for stored rules and a parsable URL, determineGroup returns
\* the first group in iteration order with a domain entry contained in the
\* stripped hostname, and returns "Uncategorized" if and only if no group has
\* such an entry
C1_FirstMatchIff ==
  (Done("determineGroup") /\ NoReject /\ RulesStored(storage)
     /\ UrlParses(call[1].url)) =>
    LET rules == storage["groupingRules"]
        url == call[1].url
    IN /\ \A i \in DOMAIN rules :
            (Hit(rules, i, url) /\ \A j \in 1..(i - 1) : ~Hit(rules, j, url))
              => ret[1] = rules[i].name
       /\ (ret[1] = "Uncategorized") <=> (\A i \in DOMAIN rules : ~Hit(rules, i, url))

\* C1 amended: for stored rules and a parsable URL, determineGroup returns
\* the first group in iteration order with a domain entry contained in the
\* stripped hostname, and returns "Uncategorized" if no group has such an
\* entry (a group that is itself named "Uncategorized" is returned like any
\* other)
C1_FirstMatch ==
  (Done("determineGroup") /\ NoReject /\ RulesStored(storage)
     /\ UrlParses(call[1].url)) =>
    LET rules == storage["groupingRules"]
        url == call[1].url
    IN /\ \A i \in DOMAIN rules :
            (Hit(rules, i, url) /\ \A j \in 1..(i - 1) : ~Hit(rules, j, url))
              => ret[1] = rules[i].name
       /\ (\A i \in DOMAIN rules : ~Hit(rules, i, url)) => ret[1] = "Uncategorized"

\* determineGroup has returned for a URL that two stored groups match
C1_Witness ==
  /\ Done("determineGroup") /\ NoReject /\ RulesStored(storage)
  /\ call[1].url = UrlGithub
  /\ Cardinality({i \in DOMAIN storage["groupingRules"] :
                    Hit(storage["groupingRules"], i, call[1].url)}) >= 2
  /\ ret[1] = "Work Tools"

\* the name is a key of the stored rules or the name of a stored custom group
NameStored(st, n) ==
  \/ "groupingRules" \in DOMAIN st /\ HasOwn(st["groupingRules"], n)
  \/ "customGroups" \in DOMAIN st
       /\ \E i \in DOMAIN st["customGroups"] : st["customGroups"][i].name = n

\* C2: addCustomGroup with a name that is a key of the stored rules or the
\* name of a stored custom group returns false, writes nothing to storage and
\* leaves the stored rules and custom groups as they were
C2_RejectsExistingName ==
  (Done("addCustomGroup") /\ NameStored(pre[1].storage, call[1].groupName)) =>
    /\ ret[1] = FALSE
    /\ CallsTo("storage.set") = {}
    /\ storage = pre[1].storage

\* addCustomGroup has read the storage and returned for a default group name
C2_Witness ==
  /\ Done("addCustomGroup") /\ NoReject
  /\ call[1].groupName = "Work Tools"
  /\ NameStored(pre[1].storage, "Work Tools")
  /\ ret[1] = FALSE

\* C3: once addCustomGroup(name, domains) has returned true, a determineGroup
\* that runs next (its storage read resolving) returns name for every URL
\* whose stripped hostname contains one of domains and no domain entry of a
\* group stored before the call
C3_AddThenResolve ==
  (Done("addCustomGroup") /\ ret[1] = TRUE) =>
    \A url \in UrlInputs :
      LET before == pre[1].storage["groupingRules"]
      IN (/\ UrlParses(url)
          /\ SomeDomain(call[1].domains, StripWww(UrlHostname(url)))
          /\ \A i \in DOMAIN before : ~Hit(before, i, url))
           => determineGroup(url, TRUE) = call[1].groupName

\* addCustomGroup("Hobbies", [.., "reddit.com"]) has returned true and the
\* reddit URL matched no group before
C3_Witness ==
  /\ Done("addCustomGroup") /\ ret[1] = TRUE
  /\ call[1].groupName = "Hobbies"
  /\ SomeDomain(call[1].domains, StripWww(UrlHostname(UrlReddit)))
  /\ \A i \in DOMAIN pre[1].storage["groupingRules"] :
       ~Hit(pre[1].storage["groupingRules"], i, UrlReddit)
  /\ determineGroup(UrlReddit, TRUE) = "Hobbies"

-----------------------------------------------------------------------------
(* Batch grouping *)

\* the color table of the design: five named groups, grey for the rest
TableColor(name) ==
  CASE name = "Social Media" -> "pink"
    [] name = "Work Tools" -> "blue"
    [] name = "News" -> "green"
    [] name = "Entertainment" -> "purple"
    [] OTHER -> "grey"

\* C4: when no host call rejects, autoGroupTabs issues exactly one grouping
\* request per group name that a tab with a URL resolves to, carrying exactly
\* the ids of the tabs resolving to that name; every tab with a URL is in
\* exactly one request and a tab without URL in none; the group a request
\* created is then given the name as title and the table's color
C4_OneRequestPerGroup ==
  (Done("autoGroupTabs") /\ NoReject) =>
    LET T == pre[1].tabs
        withUrl == {i \in DOMAIN T : Len(T[i].url) > 0}
        nameOf(i) == determineGroup(T[i].url, TRUE)
        names == {nameOf(i) : i \in withUrl}
        G == CallsTo("tabs.group")
        ids(k) == SeqRange(calls[1][k].ids)
    IN /\ Cardinality(G) = Cardinality(names)
       /\ Cardinality(CallsTo("tabGroups.update")) = Cardinality(G)
       /\ \A n \in names :
            \E k \in G :
              /\ ids(k) = {T[i].id : i \in {j \in withUrl : nameOf(j) = n}}
              /\ Len(calls[1][k].ids) = Cardinality(ids(k))
              /\ k + 1 \in DOMAIN calls[1]
              /\ calls[1][k + 1].api = "tabGroups.update"
              /\ calls[1][k + 1].gid = calls[1][k].gid
              /\ calls[1][k + 1].title = n
              /\ calls[1][k + 1].color = TableColor(n)
              /\ \E g \in DOMAIN groups :
                   /\ groups[g].id = calls[1][k].gid
                   /\ groups[g].title = n
                   /\ groups[g].color = TableColor(n)
                   /\ {tabs[i].id : i \in {j \in DOMAIN tabs :
                         tabs[j].groupId = groups[g].id}} = ids(k)
       /\ \A i \in withUrl : Cardinality({k \in G : T[i].id \in ids(k)}) = 1
       /\ \A i \in DOMAIN T \ withUrl : \A k \in G : T[i].id \notin ids(k)

\* autoGroupTabs has finished without a rejection for a Social Media tab and
\* a Work Tools tab: two requests, pink and blue
C4_Witness ==
  /\ Done("autoGroupTabs") /\ NoReject
  /\ Cardinality(CallsTo("tabs.group")) = 2
  /\ \E k \in CallsTo("tabGroups.update") :
       calls[1][k].title = "Social Media" /\ calls[1][k].color = "pink"
  /\ \E k \in CallsTo("tabGroups.update") :
       calls[1][k].title = "Work Tools" /\ calls[1][k].color = "blue"

\* C5: a rejection of the group-creation or group-update call of one
\* partition does not end the batch: when autoGroupTabs finishes, every
\* partition it built has had its grouping request issued, and its
\* title/color update issued too when its own grouping request resolved
C5_FailureIsolated ==
  Done("autoGroupTabs") =>
    \A m \in DOMAIN acc[1] :
      \E k \in CallsTo("tabs.group") :
        /\ calls[1][k].ids = TabIds(acc[1][m].tabs)
        /\ calls[1][k].ok =>
             /\ k + 1 \in DOMAIN calls[1]
             /\ calls[1][k + 1].api = "tabGroups.update"
             /\ calls[1][k + 1].gid = calls[1][k].gid
             /\ calls[1][k + 1].title = acc[1][m].name
             /\ calls[1][k + 1].color = TableColor(acc[1][m].name)

\* autoGroupTabs has finished after the grouping request of its first
\* partition was rejected and the one of a later partition resolved
C5_Witness ==
  /\ Done("autoGroupTabs")
  /\ Len(acc[1]) >= 2
  /\ \E k \in CallsTo("tabs.group") :
       /\ ~calls[1][k].ok
       /\ calls[1][k].ids = TabIds(acc[1][1].tabs)
       /\ \E l \in CallsTo("tabs.group") :
            /\ l > k /\ calls[1][l].ok
            /\ l + 1 \in CallsTo("tabGroups.update") /\ calls[1][l + 1].ok

-----------------------------------------------------------------------------
(* Migration of uncategorized tabs *)

\* the invocation issued no storage write, grouping request or group update
NoEffect ==
  /\ CallsTo("storage.set") = {}
  /\ CallsTo("tabs.group") = {}
  /\ CallsTo("tabGroups.update") = {}

\* C6: moveUncategorizedTabs with a targetGroup that is not a key of the
\* stored groupingRules performs no storage write, no grouping request and no
\* group update, whatever tabs are open
C6_MissingTargetNoEffect ==
  (/\ Done("moveUncategorizedTabs")
   /\ RulesStored(pre[1].storage)
   /\ ~HasOwn(pre[1].storage["groupingRules"], call[1].targetGroup))
    => NoEffect

\* the tabs of ts, in order, that have a URL and that rules resolve to
\* "Uncategorized"
RECURSIVE UncategorizedOf(_, _)
UncategorizedOf(ts, rules) ==
  IF ts = <<>> THEN <<>>
  ELSE IF Len(Head(ts).url) > 0 /\ MatchGroup(rules, Head(ts).url) = "Uncategorized"
    THEN <<Head(ts)>> \o UncategorizedOf(Tail(ts), rules)
    ELSE UncategorizedOf(Tail(ts), rules)

\* C7: for a targetGroup that is a key of the stored rules and any open tabs,
\* unparsable URLs included, moveUncategorizedTabs (no host call rejecting)
\* collects exactly the tabs with a URL that resolve to "Uncategorized" and,
\* if there are any, issues one grouping request with exactly their ids and
\* sets the group's title to targetGroup and its color to the one resolved
\* for targetGroup
C7_CollectsAndGroups ==
  (/\ Done("moveUncategorizedTabs") /\ NoReject
   /\ RulesStored(pre[1].storage)
   /\ HasOwn(pre[1].storage["groupingRules"], call[1].targetGroup))
    =>
    LET expected == UncategorizedOf(pre[1].tabs, pre[1].storage["groupingRules"])
        G == CallsTo("tabs.group")
        U == CallsTo("tabGroups.update")
    IN /\ acc[1] = expected
       /\ expected # <<>> =>
            /\ Cardinality(G) = 1 /\ Cardinality(U) = 1
            /\ \A k \in G : calls[1][k].ids = TabIds(expected)
            /\ \A k \in G, u \in U :
                 /\ calls[1][u].gid = calls[1][k].gid
                 /\ calls[1][u].title = call[1].targetGroup
                 /\ calls[1][u].color = TableColor(call[1].targetGroup)

\* occurrences of x in sequence a
Occurrences(a, x) == Cardinality({i \in DOMAIN a : a[i] = x})

\* C8: after moveUncategorizedTabs(targetGroup) has completed for an existing
\* targetGroup, determineGroup returns targetGroup for the URL of every tab it
\* collected and targetGroup's stored domain list holds each collected tab's
\* stripped hostname exactly once
C8_CollectedResolveToTarget ==
  (/\ Done("moveUncategorizedTabs") /\ NoReject
   /\ RulesStored(pre[1].storage)
   /\ HasOwn(pre[1].storage["groupingRules"], call[1].targetGroup))
    =>
    \A i \in DOMAIN acc[1] :
      LET url == acc[1][i].url
          rules == storage["groupingRules"]
          target == call[1].targetGroup
      IN /\ determineGroup(url, TRUE) = target
         /\ UrlParses(url) =>
              Occurrences(rules[OwnIndex(rules, target)].domains,
                          StripWww(UrlHostname(url))) = 1

-----------------------------------------------------------------------------
(* Navigation *)

\* the tabs of ts, in order, that are in group g
Members(ts, g) == SelectTabs(ts, g)

\* the tab that was active when the invocation started
ActiveBefore ==
  pre[1].tabs[CHOOSE i \in DOMAIN pre[1].tabs : pre[1].tabs[i].id = pre[1].activeTab]

\* the ids of the tabs the invocation activated
Activated == {calls[1][k].ids[1] : k \in CallsTo("tabs.update")}

\* C9: with n >= 1 groups, cycleTabGroups activates the first tab of the
\* group at index (i + 1) mod n when the active tab is in the group at index
\* i, and the first tab of the group at index 0 when the active tab is
\* ungrouped; with no groups it activates nothing
C9_CycleNextGroup ==
  Done("cycleTabGroups") =>
    LET gs == pre[1].groups
        n == Len(gs)
        cur == ActiveBefore.groupId
        at == {i \in 1..n : gs[i].id = cur}
        next == IF at = {} THEN 1 ELSE ((CHOOSE i \in at : TRUE) % n) + 1
    IN IF n = 0
         THEN Activated = {} /\ activeTab = pre[1].activeTab
         ELSE /\ cur = TAB_GROUP_ID_NONE => at = {}
              /\ Activated = {Members(pre[1].tabs, gs[next].id)[1].id}
              /\ activeTab = Members(pre[1].tabs, gs[next].id)[1].id

\* cycleTabGroups has run with the active tab in the last of two groups and
\* has wrapped to the first tab of the first group
C9_Witness ==
  /\ Done("cycleTabGroups")
  /\ Len(pre[1].groups) = 2
  /\ ActiveBefore.groupId = pre[1].groups[2].id
  /\ activeTab = Members(pre[1].tabs, pre[1].groups[1].id)[1].id
  /\ activeTab # pre[1].activeTab

\* C10: navigateWithinGroup activates the tab at index (k + 1) mod m of the
\* active tab's group, k being the active tab's index among the group's
\* m >= 2 tabs; it activates nothing when the active tab is ungrouped or the
\* only tab of its group, and never a tab of another group
C10_NextWithinGroup ==
  Done("navigateWithinGroup") =>
    LET cur == ActiveBefore.groupId
        members == Members(pre[1].tabs, cur)
        m == Len(members)
        k == CHOOSE i \in 1..m : members[i].id = pre[1].activeTab
    IN IF cur = TAB_GROUP_ID_NONE \/ m <= 1
         THEN Activated = {} /\ activeTab = pre[1].activeTab
         ELSE /\ Activated = {members[(k % m) + 1].id}
              /\ activeTab = members[(k % m) + 1].id

-----------------------------------------------------------------------------
(* Errors of the resolver *)

\* C11: determineGroup raises no error to its caller: for a URL that does
\* not parse, for a storage read that rejects and for storage without
\* groupingRules it returns "Uncategorized"
C11_NeverRaises ==
  (/\ Done("determineGroup")
   /\ \/ ~UrlParses(call[1].url)
      \/ ~NoReject
      \/ ~RulesStored(pre[1].storage))
    => ret[1] = "Uncategorized"

\* determineGroup has returned "Uncategorized" after a rejected storage read,
\* for a URL that the stored rules match
C11_Witness ==
  /\ Done("determineGroup") /\ ~NoReject
  /\ RulesStored(storage)
  /\ call[1].url = UrlGithub
  /\ MatchGroup(storage["groupingRules"], UrlGithub) = "Work Tools"
  /\ ret[1] = "Uncategorized"

-----------------------------------------------------------------------------
(* The rule store under overlapping callers *)

\* the write of initializeStorage is taken by process p
InitWrites(p) == pc[p] = "init_set" /\ pc'[p] = "done"

\* C12: initializeStorage writes the defaults only when no groupingRules are
\* stored: in every execution, also when it overlaps another
\* initializeStorage, addCustomGroup or moveUncategorizedTabs, its write
\* replaces no groupingRules and no customGroups that are already stored
C12_NeverReplaces ==
  [][\A p \in Procs :
       InitWrites(p) =>
         \A k \in {"groupingRules", "customGroups"} \cap DOMAIN storage :
           storage'[k] = storage[k]]_vars

\* both processes have returned from addCustomGroup
BothAdded ==
  \A p \in Procs : pc[p] = "done" /\ call[p].fn = "addCustomGroup"

\* each of the two calls read the storage, with rules and custom groups
\* stored, before either of the two groups was written: both names are new
\* to both reads
ReadBeforeWrites ==
  /\ \A p \in Procs : {"groupingRules", "customGroups"} \subseteq DOMAIN got[p]
  /\ \A p, q \in Procs : ~NameStored(got[p], call[q].groupName)

\* the names of the stored custom groups
CustomNames(st) == {st["customGroups"][i].name : i \in DOMAIN st["customGroups"]}

\* the keys of the stored rules
RuleNames(st) == {st["groupingRules"][i].name : i \in DOMAIN st["groupingRules"]}

\* C13: the read-modify-write of addCustomGroup is not atomic: when two calls
\* with distinct new names have both read the storage before either wrote,
\* both return true and the stored groupingRules and customGroups hold
\* exactly one of the two groups, the same one in both (last write wins)
C13_LastWriteWins ==
  (BothAdded /\ call[1].groupName # call[2].groupName /\ ReadBeforeWrites) =>
    LET new == {call[1].groupName, call[2].groupName}
    IN /\ ret[1] = TRUE /\ ret[2] = TRUE
       /\ Cardinality(RuleNames(storage) \cap new) = 1
       /\ CustomNames(storage) \cap new = RuleNames(storage) \cap new

\* both calls have returned true and only "Games", written last, is stored
C13_Witness ==
  /\ BothAdded /\ ReadBeforeWrites
  /\ ret[1] = TRUE /\ ret[2] = TRUE
  /\ call[1].groupName = "Hobbies" /\ call[2].groupName = "Games"
  /\ CustomNames(storage) = {"Games"}
  /\ ~HasOwn(storage["groupingRules"], "Hobbies")
  /\ HasOwn(storage["groupingRules"], "Games")

-----------------------------------------------------------------------------
(* The write of the migration *)

\* the loop over the tabs of moveUncategorizedTabs ran to its end
ScanFinished == lTabs[1] # <<>> /\ idx[1] > Len(lTabs[1])

C15_CustomNamesAreKeys ==
  ({"groupingRules", "customGroups"} \subseteq DOMAIN storage) =>
    CustomNames(storage) \subseteq RuleNames(storage)

\* C16: in every reachable state, under any interleaving of the operations
\* and starting from empty storage, no two entries of the stored
\* customGroups have the same name
C16_CustomNamesDistinct ==
  ("customGroups" \in DOMAIN storage) =>
    \A i, j \in DOMAIN storage["customGroups"] :
      storage["customGroups"][i].name = storage["customGroups"][j].name => i = j

\* two overlapping addCustomGroup calls of the same new name have both
\* returned true and the name is stored once
C16_Witness ==
  /\ BothAdded
  /\ call[1].groupName = "Hobbies" /\ call[2].groupName = "Hobbies"
  /\ ret[1] = TRUE /\ ret[2] = TRUE
  /\ Len(storage["customGroups"]) = 1
  /\ storage["customGroups"][1].name = "Hobbies"

-----------------------------------------------------------------------------
(* What the migration leaves alone *)

\* C17: moveUncategorizedTabs changes the resolution only of URLs that
\* resolved to "Uncategorized" before the call: a URL that the rules stored
\* before the call resolve to a group resolves to the same group under the
\* rules stored after it, whatever tabs are open
C17_ResolvedStayResolved ==
  (/\ Done("moveUncategorizedTabs")
   /\ RulesStored(pre[1].storage) /\ RulesStored(storage))
    =>
    \A url \in UrlInputs :
      LET before == MatchGroup(pre[1].storage["groupingRules"], url)
      IN before # "Uncategorized" =>
           MatchGroup(storage["groupingRules"], url) = before

-----------------------------------------------------------------------------
(* Repeated group cycling *)

\* the group of the tab with this id, TAB_GROUP_ID_NONE for no tab
GroupOfTab(id) ==
  IF \E i \in DOMAIN tabs : tabs[i].id = id
    THEN tabs[CHOOSE i \in DOMAIN tabs : tabs[i].id = id].groupId
    ELSE TAB_GROUP_ID_NONE

\* C18: with n >= 1 groups and no other change to tabs or groups, n
\* consecutive invocations of cycleTabGroups, from any active tab, activate a
\* tab of every group; from a grouped active tab the n-th invocation
\* activates a tab of the starting group
C18_CycleCoversGroups ==
  (Len(groups) >= 1 /\ Len(trail) = Len(groups)) =>
    LET n == Len(groups)
        start == GroupOfTab(trail[1].from)
    IN /\ {GroupOfTab(trail[k].to) : k \in 1..n} = GroupIds
       /\ start # TAB_GROUP_ID_NONE => GroupOfTab(trail[n].to) = start

-----------------------------------------------------------------------------
(* The auto-group button *)

\* C19: a click on the popup's auto-group button invokes autoGroupTabs
\* through the surface the background script exposes, and the popup's tab
\* list is rendered again afterwards: when the click handler has ended, the
\* call into the background page was made and the list shows the tabs the
\* handler's displayTabs queried
C19_ClickGroupsAndRenders ==
  (pc[2] = "done" /\ call[2].fn = "autoGroupBtnClick") =>
    /\ \E k \in DOMAIN calls[2] : calls[2][k].api = "backgroundPage.autoGroupTabs"
    /\ ret[2] # "TypeError"
    /\ lTabs[2] # <<>>
    /\ rendered = Render(lTabs[2], groups)

====
